---- MODULE Spec2Model ----
(***************************************************************************)
(* Model of tensorflow/core/tpu/tpu_node_device.cc: the TPU device-to-     *)
(* device copy TpuDeviceToDeviceCopy, the streams it enqueues work on, the *)
(* substream pool of the destination's device-to-device master stream, the *)
(* reference count of the source tensor's buffer, and the process-wide     *)
(* flag set by RegisterTpuNodeDevice.                                      *)
(*                                                                         *)
(* The synchronous part of TpuDeviceToDeviceCopy is one action; it is the  *)
(* composition, in program order, of one operator per code segment, each   *)
(* mapping the state the function works on (a record m) to the state after *)
(* the segment.  Results of collaborators are drawn when the code asks for *)
(* them.  Streams execute what was enqueued on them asynchronously, one    *)
(* operation per step, in FIFO order.                                      *)
(***************************************************************************)
EXTENDS Integers, Sequences, FiniteSets, TLC

\* ------------------------------------------------------------- bounds
NumTransfers == 2
MaxLeaves == 2
PoolSize == 2
\* Failing answers of collaborators over one run.
MaxFaults == 1

Transfers == 1..NumTransfers
\* Byte sizes a leaf may have; only equality of sizes is ever observed.
LeafSizes == {1, 2}

\* ------------------------------------------------------------ streams
Null == <<"null", 0>>
MasterStream == <<"master", 0>>
D2DStream == <<"d2d", 0>>
H2DStream == <<"h2d", 0>>
DstComputeStream == <<"compute", 0>>
SubStreams == {<<"sub", i>> : i \in 1..PoolSize}
\* Streams on which TpuDeviceToDeviceCopy enqueues operations.
WorkStreams == SubStreams \cup {D2DStream, H2DStream}

\* Contents of leaf i of the source buffer of transfer t, and the contents
\* of memory that was never written or was read after being freed.
SrcData(t, i) == <<t, i>>
Garbage == <<0, 0>>

VARIABLES
  flag,                  \* tpu_use_substreams_for_cross_tpu_device_transfers_flag
  latched,               \* the function-local static has been initialized
  namesDiffer,           \* src->name() != dst->name()
  initialized,           \* TpuPlatformInterface::Initialized()
  sameLocation,          \* src stream IsSameSharedMemoryLocation(dst stream)
  faults,                \* failing answers of collaborators so far
  should_use_substream,  \* the function-local static const bool
  pc,                    \* per transfer: "idle", "called"
  args,                  \* per transfer: attributes of the arguments
  log,                   \* per transfer: the calls made, in program order
  avail,                 \* substreams available in the master stream's pool
  queue,                 \* per stream: operations enqueued and not yet executed
  refs,                  \* per transfer: refcount of the source tensor's buffer
  engineRef,             \* per transfer: TensorReferences held by the lambda
  srcDefined,            \* per transfer: the source's definition event has fired
  srcSizes,              \* per transfer: byte sizes of the source's leaves
  out,                   \* per transfer: the destination tensor
  master,                \* per transfer: device_to_device_master_stream
  chosen,                \* per transfer: dst_device_to_device_stream
  doneCount,             \* per transfer: invocations of the user callback
  doneStatus             \* per transfer: status passed to the user callback

env == <<namesDiffer, initialized, sameLocation>>
vars == <<flag, latched, should_use_substream, env, faults, pc, args, log,
          avail, queue, refs, engineRef, srcDefined, srcSizes, out, master,
          chosen, doneCount, doneStatus>>

\* ------------------------------------------------------------- helpers
\* One entry of a transfer's log: the operation, the stream it is called on,
\* the stream it names (ThenWaitFor), the leaf index (0 when it concerns
\* none) and the answer of the collaborator.
Entry(op, on, other, leaf, ok) ==
  [op |-> op, on |-> on, other |-> other, leaf |-> leaf, ok |-> ok]

\* Attributes of the arguments of one invocation.
Args == [zero : BOOLEAN, dtypeEq : BOOLEAN, shapeEq : BOOLEAN]

NoArgs == [zero |-> FALSE, dtypeEq |-> TRUE, shapeEq |-> TRUE]

\* The destination tensor before the call: declared, no shaped buffer.
NoBuffer == [buf |-> "none", tuple |-> FALSE, sizes |-> << >>, data |-> << >>,
             tables |-> FALSE, event |-> "none"]

\* On-device shapes the shape-representation function may return: an array
\* (one leaf) or a tuple of 2..MaxLeaves leaves.
SizeSeqs(n) == [1..n -> LeafSizes]
Shapes == {[tuple |-> FALSE, sizes |-> s] : s \in SizeSeqs(1)}
          \cup {[tuple |-> TRUE, sizes |-> s] :
                  s \in UNION {SizeSeqs(n) : n \in 2..MaxLeaves}}

\* Byte sizes of the leaves of a source buffer of n leaves.
SrcLeafSizes(n) == [i \in 1..n |-> 1]

\* Whether a collaborator succeeds, once the code reaches the call: it may
\* fail while the run's budget of faults lasts.
Answers(m) ==
  IF m.ret = "run" /\ m.faults < MaxFaults THEN BOOLEAN ELSE {TRUE}

\* The working state after a collaborator answered ok.
Answered(m, ok) ==
  IF ok THEN m ELSE [m EXCEPT !.faults = @ + 1]

\* ------------------------------------------- the function's working state
\* The state TpuDeviceToDeviceCopy works on while it runs for transfer t:
\* ret is "run" while impl is executing, then the Status impl returned.
Enter(t) ==
  [t |-> t, ret |-> "run", log |-> log[t], avail |-> avail, queue |-> queue,
   refs |-> refs[t], engineRef |-> engineRef[t], out |-> out[t],
   srcSizes |-> srcSizes[t], master |-> Null, stream |-> Null,
   armed |-> FALSE, dcount |-> doneCount[t], dstatus |-> doneStatus[t],
   faults |-> faults]

Logged(m, op, on, leaf, ok) ==
  [m EXCEPT !.log = Append(@, Entry(op, on, Null, leaf, ok))]

\* done(status): the user callback.
Done(m, status) ==
  [Logged(m, "done", Null, 0, status = "OK")
     EXCEPT !.dcount = @ + 1, !.dstatus = status]

\* master->ReturnSubStream(stream).
ReturnSubStream(m) ==
  [Logged(m, "ReturnSubStream", m.stream, 0, TRUE)
     EXCEPT !.avail = @ \cup {m.stream}]

\* Mutant: the cleanup never runs.
CleanupNever(m) == m

\* The gtl::MakeCleanup object return_substream runs when it goes out of
\* scope, unless it was released.
Cleanup(m) ==
  IF m.armed /\ m.master # Null THEN ReturnSubStream(m) ELSE m

\* return status; from impl: locals are destroyed, then control returns.
ReturnFrom(m, status) ==
  [Cleanup(m) EXCEPT !.ret = status, !.armed = FALSE]

\* TF_RET_CHECK(cond): return an Internal error unless cond holds.
RetCheck(m, cond, what) ==
  IF cond THEN m ELSE ReturnFrom(m, what)

\* Identities of the operations pending on stream s.
Pending(q, s) ==
  IF s \in WorkStreams THEN {<<q[s][i].t, q[s][i].k>> : i \in 1..Len(q[s])}
  ELSE {}

\* Enqueue an operation of the given kind on stream s.
Enqueue(m, s, kind, leaf) ==
  LET k == Len(m.log) + 1
      op == [t |-> m.t, k |-> k, kind |-> kind, leaf |-> leaf, deps |-> {}]
  IN [Logged(m, kind, s, leaf, TRUE) EXCEPT !.queue[s] = Append(@, op)]

\* stream->ThenWaitFor(other): wait for what is enqueued on other now.
ThenWaitFor(m, s, other) ==
  LET k == Len(m.log) + 1
      op == [t |-> m.t, k |-> k, kind |-> "wait_stream", leaf |-> 0,
             deps |-> Pending(m.queue, other)]
  IN [m EXCEPT !.log = Append(@, Entry("ThenWaitFor", s, other, 0, TRUE)),
                 !.queue[s] = Append(@, op)]

\* ------------------------------------------------ segments of impl
\* Status CheckIfTPUInitialized()
CheckIfTPUInitialized ==
  IF ~initialized THEN "FailedPrecondition" ELSE "OK"

\* Mutant: the platform is asked whatever the device names.
CheckInitAlways(m) ==
  IF m.ret # "run" THEN m
  ELSE LET s == CheckIfTPUInitialized
           m1 == Logged(m, "CheckIfTPUInitialized", Null, 0, s = "OK")
       IN IF s # "OK" THEN ReturnFrom(Done(m1, s), "OK") ELSE m1

\* if (src->name() != dst->name()) { Status s = CheckIfTPUInitialized(); ... }
CheckInit(m) ==
  IF m.ret # "run" \/ ~namesDiffer THEN m
  ELSE LET s == CheckIfTPUInitialized
           m1 == Logged(m, "CheckIfTPUInitialized", Null, 0, s = "OK")
       IN IF s # "OK" THEN ReturnFrom(Done(m1, s), "OK") ELSE m1

\* Mutant: the zero-element branch calls done and does not return.
CheckZeroNoReturn(m, a) ==
  IF m.ret # "run" THEN m
  ELSE IF a.zero THEN Done(m, "OK") ELSE m

\* if (input->shape().num_elements() == 0) { done(OK); return OK; }
CheckZero(m, a) ==
  IF m.ret # "run" THEN m
  ELSE IF a.zero THEN ReturnFrom(Done(m, "OK"), "OK") ELSE m

\* TF_RET_CHECK(src_compute_stream != nullptr)
CheckSrcStream(m, srcStreamOk) ==
  IF m.ret # "run" THEN m
  ELSE RetCheck(Answered(m, srcStreamOk), srcStreamOk,
                "Internal: src_compute_stream")

\* TF_RET_CHECK(input->dtype() == output->dtype())
CheckDtype(m, a) ==
  IF m.ret # "run" THEN m ELSE RetCheck(m, a.dtypeEq, "Internal: dtype")

\* Mutant: the shape check is missing.
CheckShapeMissing(m, a) == m

\* TF_RET_CHECK(input->shape() == output->shape())
CheckShape(m, a) ==
  IF m.ret # "run" THEN m ELSE RetCheck(m, a.shapeEq, "Internal: shape")

\* TF_RET_CHECK(DMAHelper::CanUseDMA(input))
CheckDMA(m, dmaOk) ==
  IF m.ret # "run" THEN m
  ELSE RetCheck(Logged(Answered(m, dmaOk), "CanUseDMA", Null, 0, dmaOk),
                dmaOk, "Internal: CanUseDMA")

\* *output = *input: the destination shares the source's buffer; a Tensor
\* copy takes a reference on the shared buffer.
AssignOutput(m) ==
  [Logged(m, "AssignOutput", Null, 0, TRUE)
     EXCEPT !.out = [NoBuffer EXCEPT !.buf = "alias"], !.refs = @ + 1]

\* Mutant: the test is made and its answer ignored.
SameLocationIgnored(m) ==
  IF m.ret # "run" THEN m
  ELSE Logged(m, "IsSameSharedMemoryLocation", Null, 0, sameLocation)

\* if (src_impl->IsSameSharedMemoryLocation(dst_impl)) { ... }
SameLocation(m) ==
  IF m.ret # "run" THEN m
  ELSE LET m1 == Logged(m, "IsSameSharedMemoryLocation", Null, 0,
                        sameLocation)
       IN IF sameLocation THEN ReturnFrom(Done(AssignOutput(m1), "OK"), "OK")
          ELSE m1

\* master->GetOrCreateSubStream(): the first substream of the pool that is
\* not checked out; nullptr when there is none or the stream fails.
GetOrCreateSubStream(m, streamOk) ==
  IF m.avail = {} \/ ~streamOk THEN Null
  ELSE CHOOSE s \in m.avail : \A s2 \in m.avail : s[2] <= s2[2]

\* Mutant: no return_substream cleanup is made.
AcquireUnarmed(m, useSub, streamOk) ==
  IF m.ret # "run" THEN m
  ELSE LET mst == IF useSub THEN MasterStream ELSE Null
           str == IF useSub THEN GetOrCreateSubStream(m, streamOk)
                  ELSE IF streamOk THEN D2DStream ELSE Null
           m1 == [Logged(Answered(m, streamOk),
                         IF useSub THEN "GetOrCreateSubStream"
                         ELSE "GetDeviceToDeviceStream",
                         str, 0, str # Null)
                    EXCEPT !.master = mst, !.stream = str,
                           !.avail = @ \ {str}]
       IN IF str = Null
          THEN ReturnFrom(m1, "Internal: dst_device_to_device_stream")
          ELSE m1

\* Mutant: a substream is checked out whatever should_use_substream says.
AcquireAlwaysPooled(m, useSub, streamOk) ==
  IF m.ret # "run" THEN m
  ELSE LET str == GetOrCreateSubStream(m, streamOk)
           m1 == [Logged(Answered(m, streamOk), "GetOrCreateSubStream",
                         str, 0, str # Null)
                    EXCEPT !.master = MasterStream, !.stream = str,
                           !.avail = @ \ {str}]
       IN IF str = Null
          THEN ReturnFrom(m1, "Internal: dst_device_to_device_stream")
          ELSE [m1 EXCEPT !.armed = TRUE]

\* Stream selection, the null check and the return_substream cleanup.
Acquire(m, useSub, streamOk) ==
  IF m.ret # "run" THEN m
  ELSE LET mst == IF useSub THEN MasterStream ELSE Null
           str == IF useSub THEN GetOrCreateSubStream(m, streamOk)
                  ELSE IF streamOk THEN D2DStream ELSE Null
           m1 == [Logged(Answered(m, streamOk),
                         IF useSub THEN "GetOrCreateSubStream"
                         ELSE "GetDeviceToDeviceStream",
                         str, 0, str # Null)
                    EXCEPT !.master = mst, !.stream = str,
                           !.avail = @ \ {str}]
       IN IF str = Null
          THEN ReturnFrom(m1, "Internal: dst_device_to_device_stream")
          ELSE [m1 EXCEPT !.armed = TRUE]

\* TF_RET_CHECK(xla_input != nullptr && xla_input->has_shaped_buffer())
CheckXlaInput(m, inputOk) ==
  IF m.ret # "run" THEN m
  ELSE RetCheck(Answered(m, inputOk), inputOk, "Internal: xla_input")

\* TF_RET_CHECK(xla_output != nullptr && !xla_output->has_shaped_buffer())
\* TF_RET_CHECK(input->shape() == output->shape())
CheckXlaOutput(m, a, outputOk) ==
  IF m.ret # "run" THEN m
  ELSE RetCheck(RetCheck(Answered(m, outputOk), outputOk,
                         "Internal: xla_output"),
                a.shapeEq, "Internal: shape")

\* The shapes shape_representation_fn may answer with: one whose leaves
\* have the sizes of the source's leaves, or, as a fault, any other.
Matches(shape) == shape.sizes = SrcLeafSizes(Len(shape.sizes))
ShapeAnswers(m, shapeOk) ==
  IF m.ret # "run" \/ ~shapeOk THEN {CHOOSE x \in Shapes : Matches(x)}
  ELSE IF m.faults < MaxFaults THEN Shapes
  ELSE {x \in Shapes : Matches(x)}

\* TF_ASSIGN_OR_RETURN(shape, shape_representation_fn()(...))
ShapeRepresentation(m, shapeOk, shape) ==
  IF m.ret # "run" THEN m
  ELSE IF ~shapeOk
       THEN ReturnFrom(Answered(m, FALSE), "ShapeRepresentationError")
  ELSE Answered(m, Matches(shape))

\* TF_RETURN_IF_ERROR(xla_output->AllocateShapedBuffer(...))
AllocateShapedBuffer(m, shape, allocOk) ==
  IF m.ret # "run" THEN m
  ELSE LET m1 == Logged(Answered(m, allocOk), "AllocateShapedBuffer", Null,
                        0, allocOk)
       IN IF ~allocOk THEN ReturnFrom(m1, "ResourceExhausted")
          ELSE [m1 EXCEPT !.out =
                  [buf |-> "allocated", tuple |-> shape.tuple,
                   sizes |-> shape.sizes,
                   data |-> [i \in 1..Len(shape.sizes) |-> Garbage],
                   tables |-> FALSE, event |-> "none"]]

\* Mutant: no wait for the source's definition event is enqueued.
WaitForDefinitionEventSkipped(m) == m

\* xla_input->WaitForDefinitionEventOnStream(dst_device_to_device_stream)
WaitForDefinitionEventOnStream(m) ==
  IF m.ret # "run" THEN m ELSE Enqueue(m, m.stream, "wait_event", 0)

\* Mutant: the host-to-device stream is never made to wait.
WaitForDestinationNoStaging(m, canAccessNow) ==
  IF m.ret # "run" THEN m
  ELSE LET m1 == Logged(m, "CanShapedBufferBeAccessedNow", Null, 0,
                        canAccessNow)
       IN IF canAccessNow THEN m1
          ELSE ThenWaitFor(m1, m.stream, DstComputeStream)

\* if (!CanShapedBufferBeAccessedNow(...)) { ThenWaitFor(compute); ... }
WaitForDestination(m, canAccessNow) ==
  IF m.ret # "run" THEN m
  ELSE LET m1 == Logged(m, "CanShapedBufferBeAccessedNow", Null, 0,
                        canAccessNow)
       IN IF canAccessNow THEN m1
          ELSE LET m2 == ThenWaitFor(m1, m.stream, DstComputeStream)
               IN IF m2.out.tuple
                  THEN ThenWaitFor(m2, H2DStream, DstComputeStream)
                  ELSE m2

\* The loop over the leaves of the source's shaped buffer, from leaf i on.
\* enqFail is the leaf whose EnqueueOnTpuDeviceSendRecvLocal fails (0: none).
RECURSIVE LeafLoop(_, _, _)
LeafLoop(m, i, enqFail) ==
  IF m.ret # "run" \/ i > Len(m.srcSizes) THEN m
  ELSE IF m.srcSizes[i] # m.out.sizes[i]
       THEN ReturnFrom(m, "Internal: leaf size")
  ELSE IF enqFail = i
       THEN ReturnFrom(Logged(Answered(m, FALSE), "copy", m.stream, i, FALSE),
                       "EnqueueError")
  ELSE LeafLoop(Enqueue(m, m.stream, "copy", i), i + 1, enqFail)

\* The leaf whose enqueue fails: none (0), or, as a fault, one of them.
EnqueueAnswers(m) ==
  IF m.ret = "run" /\ m.faults < MaxFaults THEN 0..Len(m.out.sizes) ELSE {0}

\* Mutant: the loop over the leaves enqueues nothing.
CopyLeavesNone(m, sizes, enqFail) ==
  IF m.ret # "run" THEN m ELSE [m EXCEPT !.srcSizes = sizes]

\* for (const auto& leaf : xla_input->shaped_buffer().buffers().leaves())
CopyLeaves(m, sizes, enqFail) ==
  IF m.ret # "run" THEN m
  ELSE LeafLoop([m EXCEPT !.srcSizes = sizes], 1, enqFail)

\* Mutant: the chosen stream does not wait for the index-table write.
WriteTupleIndexTablesNoWait(m, writeOk) ==
  IF m.ret # "run" \/ ~m.out.tuple THEN m
  ELSE IF ~writeOk
       THEN ReturnFrom(Logged(Answered(m, FALSE), "write_tables", H2DStream,
                              0, FALSE),
                       "WriteTupleIndexTablesError")
  ELSE Enqueue(m, H2DStream, "write_tables", 0)

\* if (on_device_shape().IsTuple()) { WriteTupleIndexTablesAsync; ThenWaitFor }
WriteTupleIndexTables(m, writeOk) ==
  IF m.ret # "run" \/ ~m.out.tuple THEN m
  ELSE IF ~writeOk
       THEN ReturnFrom(Logged(Answered(m, FALSE), "write_tables", H2DStream,
                              0, FALSE),
                       "WriteTupleIndexTablesError")
  ELSE ThenWaitFor(Enqueue(m, H2DStream, "write_tables", 0),
                   m.stream, H2DStream)

\* Mutant: the event becomes the definition event without being recorded.
ResetWithoutRecord(m, initOk) ==
  IF m.ret # "run" THEN m
  ELSE IF ~initOk
       THEN ReturnFrom(Answered(m, FALSE),
                       "Internal: Event failed to initialize!")
  ELSE [Logged(m, "ResetDefinitionEvent", m.stream, 0, TRUE)
          EXCEPT !.out.event = "pending"]

\* definition_event->Init(); ThenRecordEvent; ResetDefinitionEvent
RecordDefinitionEvent(m, initOk) ==
  IF m.ret # "run" THEN m
  ELSE IF ~initOk
       THEN ReturnFrom(Answered(m, FALSE),
                       "Internal: Event failed to initialize!")
  ELSE [Logged(Enqueue(m, m.stream, "record", 0),
               "ResetDefinitionEvent", m.stream, 0, TRUE)
          EXCEPT !.out.event = "pending"]

\* TensorReference input_reference(*input)
TensorReference(m) ==
  [Logged(m, "TensorReference", Null, 0, TRUE)
     EXCEPT !.refs = @ + 1, !.engineRef = @ + 1]

\* std::move(return_substream).release(); ThenDoHostCallback(...); return OK
AttachHostCallback(m) ==
  IF m.ret # "run" THEN m
  ELSE LET m1 == [TensorReference(m) EXCEPT !.armed = FALSE]
       IN ReturnFrom(Enqueue(m1, m.stream, "host_callback", 0), "OK")

\* Mutant: done(status) is also called when impl returned OK.
AfterImplAlways(m) == Done(m, m.ret)

\* Status status = impl(); if (!status.ok()) done(status);
AfterImpl(m) ==
  IF m.ret # "OK" THEN Done(m, m.ret) ELSE m

\* ---------------------------------------------------------------- state
Init ==
  /\ flag = TRUE
  /\ latched = FALSE
  /\ namesDiffer \in BOOLEAN
  /\ initialized \in BOOLEAN
  /\ sameLocation \in BOOLEAN
  /\ faults = 0
  /\ should_use_substream = TRUE
  /\ pc = [t \in Transfers |-> "idle"]
  /\ args = [t \in Transfers |-> NoArgs]
  /\ log = [t \in Transfers |-> << >>]
  /\ avail = SubStreams
  /\ queue = [s \in WorkStreams |-> << >>]
  /\ refs = [t \in Transfers |-> 1]
  /\ engineRef = [t \in Transfers |-> 0]
  /\ srcDefined = [t \in Transfers |-> FALSE]
  /\ srcSizes = [t \in Transfers |-> << >>]
  /\ out = [t \in Transfers |-> NoBuffer]
  /\ master = [t \in Transfers |-> Null]
  /\ chosen = [t \in Transfers |-> Null]
  /\ doneCount = [t \in Transfers |-> 0]
  /\ doneStatus = [t \in Transfers |-> "none"]

\* Write the working state of transfer m.t back.
Commit(m) ==
  /\ log' = [log EXCEPT ![m.t] = m.log]
  /\ avail' = m.avail
  /\ queue' = m.queue
  /\ refs' = [refs EXCEPT ![m.t] = m.refs]
  /\ engineRef' = [engineRef EXCEPT ![m.t] = m.engineRef]
  /\ srcSizes' = [srcSizes EXCEPT ![m.t] = m.srcSizes]
  /\ out' = [out EXCEPT ![m.t] = m.out]
  /\ doneCount' = [doneCount EXCEPT ![m.t] = m.dcount]
  /\ doneStatus' = [doneStatus EXCEPT ![m.t] = m.dstatus]
  /\ faults' = m.faults

\* Mutant: the flag is read at every invocation.
ShouldUseSubstreamUnlatched == flag

\* static const bool should_use_substream = ...flag: initialized from the
\* flag by the first invocation that reaches the declaration, kept after.
ShouldUseSubstream == IF latched THEN should_use_substream ELSE flag

\* -------------------------------------------------------------- actions
\* One invocation of TpuDeviceToDeviceCopy, up to its return to the caller.
TpuDeviceToDeviceCopy(t) ==
  /\ pc[t] = "idle"
  /\ \A u \in Transfers : u < t => pc[u] = "called"
  /\ \E a \in Args :
     LET use == ShouldUseSubstream
         m1 == CheckZero(CheckInit(Enter(t)), a)
     IN \E srcStreamOk \in Answers(m1) :
     LET m2 == CheckShape(CheckDtype(CheckSrcStream(m1, srcStreamOk), a), a)
     IN \E dmaOk \in Answers(m2) :
     LET m4 == SameLocation(CheckDMA(m2, dmaOk))
     IN \E streamOk \in Answers(m4) :
     LET m5 == Acquire(m4, use, streamOk)
     IN \E inputOk \in Answers(m5) :
     LET m6 == CheckXlaInput(m5, inputOk)
     IN \E outputOk \in Answers(m6) :
     LET m7 == CheckXlaOutput(m6, a, outputOk)
     IN \E shapeOk \in Answers(m7) :
        \E shape \in ShapeAnswers(m7, shapeOk) :
     LET m7a == ShapeRepresentation(m7, shapeOk, shape)
     IN \E allocOk \in Answers(m7a) :
     LET m8 == WaitForDefinitionEventOnStream(
                 AllocateShapedBuffer(m7a, shape, allocOk))
     IN \E canAccessNow \in IF m8.ret = "run" THEN BOOLEAN ELSE {TRUE} :
     LET m9 == WaitForDestination(m8, canAccessNow)
     IN \E enqFail \in EnqueueAnswers(m9) :
     LET m10 == CopyLeaves(m9, SrcLeafSizes(Len(m9.out.sizes)), enqFail)
     IN \E writeOk \in IF m10.out.tuple THEN Answers(m10) ELSE {TRUE} :
     LET m11 == WriteTupleIndexTables(m10, writeOk)
     IN \E initOk \in Answers(m11) :
     LET m12 == AfterImpl(AttachHostCallback(
                  RecordDefinitionEvent(m11, initOk)))
     IN /\ Commit(m12)
        /\ args' = [args EXCEPT ![t] = a]
        /\ master' = [master EXCEPT ![t] = m12.master]
        /\ chosen' = [chosen EXCEPT ![t] = m12.stream]
  /\ pc' = [pc EXCEPT ![t] = "called"]
  /\ latched' = TRUE
  /\ should_use_substream' = ShouldUseSubstream
  /\ UNCHANGED <<flag, env, srcDefined>>

\* The working state of transfer t when stream s runs its head operation.
HeadOp(s) == queue[s][1]
Resume(s) ==
  [Enter(HeadOp(s).t) EXCEPT !.queue[s] = Tail(@),
                           !.master = master[HeadOp(s).t],
                           !.stream = chosen[HeadOp(s).t], !.ret = "OK"]

Runnable(s, kind) ==
  /\ queue[s] # << >>
  /\ HeadOp(s).kind = kind

CommitAsync(m) ==
  /\ Commit(m)
  /\ UNCHANGED <<flag, latched, should_use_substream, env, pc, args,
                 srcDefined, master, chosen>>

\* The wait for the source's definition event is over once it has fired.
ExecWaitEvent(s) ==
  /\ Runnable(s, "wait_event")
  /\ srcDefined[HeadOp(s).t]
  /\ CommitAsync(Resume(s))

\* A ThenWaitFor is over once what it waits for has executed.
ExecWaitStream(s) ==
  /\ Runnable(s, "wait_stream")
  /\ \A s2 \in WorkStreams : HeadOp(s).deps \cap Pending(queue, s2) = {}
  /\ CommitAsync(Resume(s))

\* The caller keeps the source tensor alive until the user callback has run
\* and is free to drop it afterwards; from then on the source buffer is
\* only alive for certain while the engine holds a TensorReference.
SourceAlive(t) == doneCount[t] = 0 \/ engineRef[t] > 0

\* A leaf copy reads the source leaf and writes the destination leaf.  A
\* read of a source buffer that may have been freed yields arbitrary
\* contents.
ExecCopy(s) ==
  /\ Runnable(s, "copy")
  /\ LET t == HeadOp(s).t
         i == HeadOp(s).leaf
     IN \E v \in IF SourceAlive(t) THEN {SrcData(t, i)}
                 ELSE {SrcData(t, i), Garbage} :
          CommitAsync([Resume(s) EXCEPT !.out.data[i] = v])

ExecWriteTables(s) ==
  /\ Runnable(s, "write_tables")
  /\ CommitAsync([Resume(s) EXCEPT !.out.tables = TRUE])

ExecRecord(s) ==
  /\ Runnable(s, "record")
  /\ CommitAsync([Resume(s) EXCEPT !.out.event = "recorded"])

\* input_reference.Unref()
Unref(m) ==
  [Logged(m, "Unref", Null, 0, TRUE)
     EXCEPT !.refs = @ - 1, !.engineRef = @ - 1]

\* Mutant: the lambda does not release the reference.
HostCallbackNoUnref(m) ==
  Done(IF m.master # Null THEN ReturnSubStream(m) ELSE m, "OK")

\* Mutant: the lambda invokes the user callback first.
HostCallbackDoneFirst(m) ==
  LET m1 == Done(m, "OK")
  IN Unref(IF m.master # Null THEN ReturnSubStream(m1) ELSE m1)

\* The lambda given to ThenDoHostCallback.
HostCallback(m) ==
  LET m1 == IF m.master # Null THEN ReturnSubStream(m) ELSE m
  IN Done(Unref(m1), "OK")

ExecHostCallback(s) ==
  /\ Runnable(s, "host_callback")
  /\ CommitAsync(HostCallback(Resume(s)))

\* The source's definition event fires on the source compute stream.
SrcDefinitionEvent(t) ==
  /\ ~srcDefined[t]
  /\ \E s \in WorkStreams : \E i \in 1..Len(queue[s]) :
        queue[s][i].t = t /\ queue[s][i].kind = "wait_event"
  /\ srcDefined' = [srcDefined EXCEPT ![t] = TRUE]
  /\ UNCHANGED <<flag, latched, should_use_substream, env, faults, pc, args,
                 log, avail, queue, refs, engineRef, srcSizes, out, master,
                 chosen, doneCount, doneStatus>>

\* RegisterTpuNodeDevice(.., .., tpu_use_substreams_for_cross_tpu_device_transfers)
RegisterTpuNodeDevice(b) ==
  /\ flag # b
  /\ \A s \in WorkStreams : queue[s] = << >>
  /\ flag' = b
  /\ UNCHANGED <<latched, should_use_substream, env, faults, pc, args, log,
                 avail, queue, refs, engineRef, srcDefined, srcSizes, out,
                 master, chosen, doneCount, doneStatus>>

Next ==
  \/ \E t \in Transfers : TpuDeviceToDeviceCopy(t)
  \/ \E s \in WorkStreams : ExecWaitEvent(s)
  \/ \E s \in WorkStreams : ExecWaitStream(s)
  \/ \E s \in WorkStreams : ExecCopy(s)
  \/ \E s \in WorkStreams : ExecWriteTables(s)
  \/ \E s \in WorkStreams : ExecRecord(s)
  \/ \E s \in WorkStreams : ExecHostCallback(s)
  \/ \E t \in Transfers : SrcDefinitionEvent(t)
  \/ \E b \in BOOLEAN : RegisterTpuNodeDevice(b)

Spec == Init /\ [][Next]_vars

\* A stream runs the operation at its head once it can run, and the
\* definition event a stream waits for fires: the source is being defined.
Fairness ==
  /\ \A s \in WorkStreams :
       /\ WF_vars(ExecWaitEvent(s))
       /\ WF_vars(ExecWaitStream(s))
       /\ WF_vars(ExecCopy(s))
       /\ WF_vars(ExecWriteTables(s))
       /\ WF_vars(ExecRecord(s))
       /\ WF_vars(ExecHostCallback(s))
  /\ \A t \in Transfers : WF_vars(SrcDefinitionEvent(t))

FairSpec == Spec /\ Fairness

\* ------------------------------------------------- observations on a run
Called(t) == pc[t] = "called"

\* Positions in the log of transfer t of the calls of op that succeeded.
Idx(t, op) == {i \in 1..Len(log[t]) : log[t][i].op = op /\ log[t][i].ok}
\* Number of calls of op by transfer t, whatever their answer.
Count(t, op) == Cardinality({i \in 1..Len(log[t]) : log[t][i].op = op})

\* Operations of a kind that transfer t enqueued and that have not executed.
Queued(t, kind) ==
  UNION {{<<s, i>> : i \in {j \in 1..Len(queue[s]) :
                              queue[s][j].t = t /\ queue[s][j].kind = kind}} :
         s \in WorkStreams}
QueuedAny(t) ==
  UNION {{<<s, i>> : i \in {j \in 1..Len(queue[s]) : queue[s][j].t = t}} :
         s \in WorkStreams}

\* Calls that touch a device resource: stream acquisition, allocation and
\* everything enqueued on a stream.
DeviceOps == {"GetOrCreateSubStream", "GetDeviceToDeviceStream",
              "AllocateShapedBuffer", "wait_event", "ThenWaitFor", "copy",
              "write_tables", "record", "ResetDefinitionEvent",
              "host_callback", "ReturnSubStream"}
NoDeviceWork(t) ==
  /\ \A i \in 1..Len(log[t]) : log[t][i].op \notin DeviceOps
  /\ QueuedAny(t) = {}
  /\ chosen[t] = Null
  /\ out[t].buf # "allocated"

AcquiredSubStream(t) == Idx(t, "GetOrCreateSubStream") # {}
Succeeded(t) == doneCount[t] >= 1 /\ doneStatus[t] = "OK"
Failed(t) == doneCount[t] >= 1 /\ doneStatus[t] # "OK"

\* ---------------------------------------------------------------- claims

\* C1: on every path the user callback done is invoked exactly once: never
\* twice, and once the function has returned it has either run or is held
\* by exactly one host callback pending on the chosen stream.
C1_DoneExactlyOnce ==
  \A t \in Transfers :
    IF Called(t)
    THEN doneCount[t] + Cardinality(Queued(t, "host_callback")) = 1
    ELSE doneCount[t] = 0 /\ Queued(t, "host_callback") = {}

\* A transfer completed by its host callback beside one that failed after
\* its stream was acquired.
C1_Witness ==
  \E t, u \in Transfers :
    /\ Succeeded(t) /\ Idx(t, "Unref") # {}
    /\ Failed(u) /\ Idx(u, "AllocateShapedBuffer") # {}

\* C2: a transfer that checks out a substream returns it exactly once,
\* whether it succeeds or fails; the pool holds every substream that is not
\* checked out by a transfer still running, so it is whole again when all
\* transfers have completed.
C2_SubstreamConservation ==
  /\ \A t \in Transfers :
       /\ Count(t, "ReturnSubStream") <= (IF AcquiredSubStream(t) THEN 1 ELSE 0)
       /\ (doneCount[t] >= 1 /\ AcquiredSubStream(t))
            => Count(t, "ReturnSubStream") = 1
       /\ \A i \in Idx(t, "ReturnSubStream") : log[t][i].on = chosen[t]
  /\ avail = SubStreams \ {chosen[t] : t \in {u \in Transfers :
               AcquiredSubStream(u) /\ Count(u, "ReturnSubStream") = 0}}
  /\ (\A t \in Transfers : Called(t) /\ doneCount[t] >= 1) => avail = SubStreams

\* Two transfers held different substreams, one succeeded and one failed,
\* both callbacks have fired and the pool is whole.
C2_Witness ==
  \E t, u \in Transfers :
    /\ AcquiredSubStream(t) /\ AcquiredSubStream(u)
    /\ chosen[t] # chosen[u]
    /\ Succeeded(t) /\ Failed(u)
    /\ avail = SubStreams

\* C3: while a leaf copy enqueued by a transfer has not executed, the
\* transfer holds its reference on the source tensor and its user callback
\* has not fired.
C3_SourceHeldWhileCopyPending ==
  \A t \in Transfers :
    Queued(t, "copy") # {} => engineRef[t] > 0 /\ doneCount[t] = 0

\* C4 (failure clause): when the user callback is invoked with a failure,
\* no leaf copy and no index-table write of this transfer has been enqueued
\* and the destination has no definition event.
C4_FailureLeavesDestinationUndefined ==
  \A t \in Transfers :
    Failed(t) => /\ Idx(t, "copy") = {}
                 /\ Idx(t, "write_tables") = {}
                 /\ out[t].event = "none"

\* C5 (as claimed): on every path the source's reference count after the
\* user callback equals its count before the call.
C5_Original ==
  \A t \in Transfers : doneCount[t] >= 1 => refs[t] = 1

\* C5 (amended): the engine takes at most one TensorReference per transfer
\* and has released it exactly once when the user callback fires; the count
\* after the callback equals the count before the call, except on the
\* same-location shortcut, where the destination tensor shares the source's
\* buffer and holds one reference to it.
C5_ReferenceConservation ==
  \A t \in Transfers :
    /\ Count(t, "TensorReference") <= 1
    /\ engineRef[t] = Count(t, "TensorReference") - Count(t, "Unref")
    /\ engineRef[t] \in {0, 1}
    /\ doneCount[t] >= 1 =>
         /\ engineRef[t] = 0
         /\ refs[t] = IF out[t].buf = "alias" THEN 2 ELSE 1

\* A transfer took its reference, released it in the host callback and the
\* callback has fired.
C5_Witness ==
  \E t \in Transfers :
    /\ Succeeded(t) /\ Count(t, "TensorReference") = 1 /\ Count(t, "Unref") = 1
    /\ refs[t] = 1

\* C6 (as claimed): for every zero-element source, whatever the devices and
\* the platform's initialization state, the callback fires with success and
\* no stream operation is enqueued.
C6_Original ==
  \A t \in Transfers :
    (Called(t) /\ args[t].zero) =>
      doneCount[t] = 1 /\ doneStatus[t] = "OK" /\ NoDeviceWork(t)

\* C6 (amended): for every zero-element source, whatever the destination
\* dtype and shape, the callback fires once and no device resource is
\* touched; it fires with success unless the device names differ and the
\* platform is not initialized, in which case it fires with
\* FailedPrecondition.
C6_ZeroElementNoOp ==
  \A t \in Transfers :
    (Called(t) /\ args[t].zero) =>
      /\ doneCount[t] = 1
      /\ NoDeviceWork(t)
      /\ out[t] = NoBuffer
      /\ doneStatus[t] = IF namesDiffer /\ ~initialized
                         THEN "FailedPrecondition" ELSE "OK"

\* A zero-element source whose destination has another dtype and shape
\* succeeded.
C6_Witness ==
  \E t \in Transfers :
    /\ Called(t) /\ args[t].zero /\ ~args[t].dtypeEq /\ ~args[t].shapeEq
    /\ Succeeded(t)

\* The same-location test was made for transfer t / answered yes.
SameTested(t) == Count(t, "IsSameSharedMemoryLocation") > 0
ValidationPassed(t) ==
  /\ Called(t) /\ ~args[t].zero /\ args[t].dtypeEq /\ args[t].shapeEq
  /\ Idx(t, "CanUseDMA") # {}

\* C7: when the compute streams report the same shared memory location and
\* validation passed, the destination is assigned the source's value, the
\* callback fires with success and no substream, buffer or stream operation
\* is used; the test is made after the dtype, shape and DMA checks and
\* before any stream acquisition.
C7_SameLocationShortcut ==
  \A t \in Transfers :
    /\ (ValidationPassed(t) /\ sameLocation) =>
         /\ out[t].buf = "alias"
         /\ doneCount[t] = 1 /\ doneStatus[t] = "OK"
         /\ NoDeviceWork(t)
    /\ (ValidationPassed(t) /\ ~sameLocation) => out[t].buf # "alias"
    /\ SameTested(t) => ValidationPassed(t)
    /\ \A i \in 1..Len(log[t]) :
         log[t][i].op = "IsSameSharedMemoryLocation" =>
           /\ \E j \in Idx(t, "CanUseDMA") : j < i
           /\ \A j \in 1..Len(log[t]) :
                log[t][j].op \in DeviceOps => i < j

\* A transfer took the shortcut.
C7_Witness ==
  \E t \in Transfers :
    ValidationPassed(t) /\ sameLocation /\ out[t].buf = "alias" /\ Succeeded(t)

\* Positions in the log of t of the waits of stream s on stream other.
WaitIdx(t, s, other) ==
  {i \in Idx(t, "ThenWaitFor") : log[t][i].on = s /\ log[t][i].other = other}

\* C8: for a tuple destination, the index-table write on the host-to-device
\* stream is enqueued after all leaf copies, and before the definition event
\* is recorded on the chosen stream, with a wait of the chosen stream on the
\* host-to-device stream between the two.
C8_TupleOrdering ==
  \A t \in Transfers :
    out[t].tuple =>
      /\ \A w \in Idx(t, "write_tables") :
           /\ log[t][w].on = H2DStream
           /\ \A l \in 1..Len(out[t].sizes) :
                \E c \in Idx(t, "copy") : log[t][c].leaf = l /\ c < w
           /\ \A c \in Idx(t, "copy") : c < w
      /\ \A r \in Idx(t, "record") :
           /\ log[t][r].on = chosen[t]
           /\ \E w \in Idx(t, "write_tables") :
              \E x \in WaitIdx(t, chosen[t], H2DStream) : w < x /\ x < r

\* A tuple destination whose definition event was recorded.
C8_Witness ==
  \E t \in Transfers :
    out[t].tuple /\ Idx(t, "record") # {} /\ Succeeded(t)

\* C9: a non-empty source whose dtype or shape differs from the
\* destination's fails through the callback, exactly once, with no buffer
\* allocated, no substream checked out and nothing enqueued.
C9_MismatchRejected ==
  \A t \in Transfers :
    (Called(t) /\ ~args[t].zero /\ (~args[t].dtypeEq \/ ~args[t].shapeEq)) =>
      /\ doneCount[t] = 1 /\ doneStatus[t] # "OK"
      /\ NoDeviceWork(t)
      /\ out[t] = NoBuffer

\* A transfer was rejected for its shape alone.
C9_Witness ==
  \E t \in Transfers :
    /\ Called(t) /\ ~args[t].zero /\ args[t].dtypeEq /\ ~args[t].shapeEq
    /\ doneStatus[t] = "Internal: shape"

\* Some source leaf of t differs in size from the destination leaf.
LeafMismatch(t) ==
  /\ out[t].buf = "allocated" /\ srcSizes[t] # << >>
  /\ \E i \in 1..Len(srcSizes[t]) : srcSizes[t][i] # out[t].sizes[i]

\* C10: if a source leaf differs in size from the destination leaf at the
\* same index, the transfer fails through the callback and no leaf copy of
\* it has been enqueued, wherever the mismatching leaf is.
C10_NoPartialCopy ==
  \A t \in Transfers :
    LeafMismatch(t) => Failed(t) /\ Idx(t, "copy") = {}

\* The transfer attached its host callback: impl ran to its end.
Streamed(t) == Idx(t, "host_callback") # {}

\* A non-empty source and a matching destination without a buffer, at
\* another memory location, on an initialized platform, and no collaborator
\* has failed.
C11_Pre(t) ==
  /\ Called(t) /\ ~args[t].zero /\ args[t].dtypeEq /\ args[t].shapeEq
  /\ ~sameLocation
  /\ namesDiffer => initialized
  /\ faults = 0

\* What the user callback of a streamed transfer observes when it fires.
C11_AtCallback(t) ==
  /\ QueuedAny(t) = {}
  /\ out[t].buf = "allocated"
  /\ out[t].event = "recorded"
  /\ Len(out[t].data) = Len(srcSizes[t])
  /\ \A i \in 1..Len(out[t].data) : out[t].data[i] = SrcData(t, i)

\* C11: a non-empty source and a matching unallocated destination at
\* another location, all collaborators succeeding: the transfer attaches its
\* host callback, the callback eventually fires with success, and when it
\* has fired every operation the transfer enqueued has executed, the
\* destination has its recorded definition event and every destination leaf
\* holds the contents of the source leaf at the same index.
C11_EndToEndSuccess ==
  /\ [](\A t \in Transfers :
         /\ C11_Pre(t) => Streamed(t) /\ doneStatus[t] \in {"none", "OK"}
         /\ (Streamed(t) /\ doneCount[t] >= 1) =>
              Succeeded(t) /\ C11_AtCallback(t))
  /\ \A t \in Transfers : C11_Pre(t) ~> Succeeded(t)

\* A tuple transfer completed with every leaf copied.
C11_Witness ==
  \E t \in Transfers :
    /\ C11_Pre(t) /\ Succeeded(t) /\ out[t].tuple /\ C11_AtCallback(t)

\* The outcome of validation for transfer t when the source's compute
\* stream exists: the status of the first check that decides, "pass" when
\* none does.
C12_FirstDeciding(t) ==
  IF namesDiffer /\ ~initialized THEN "FailedPrecondition"
  ELSE IF args[t].zero THEN "OK"
  ELSE IF ~args[t].dtypeEq THEN "Internal: dtype"
  ELSE IF ~args[t].shapeEq THEN "Internal: shape"
  ELSE IF \E i \in 1..Len(log[t]) :
            log[t][i].op = "CanUseDMA" /\ ~log[t][i].ok
       THEN "Internal: CanUseDMA"
  ELSE "pass"

\* C12: the checks are applied in the order initialization (when the device
\* names differ), zero elements, dtype, shape, DMA eligibility, and the
\* callback gets the outcome of the first that decides: the platform is
\* asked exactly when the names differ, an uninitialized platform gives
\* FailedPrecondition with no device operation, a zero-element source
\* succeeds whatever the later checks would say, and DMA eligibility is
\* asked only after dtype and shape matched.
C12_ValidationOrder ==
  \A t \in Transfers :
    Called(t) =>
      /\ Count(t, "CheckIfTPUInitialized") = (IF namesDiffer THEN 1 ELSE 0)
      /\ C12_FirstDeciding(t) # "pass" =>
           /\ doneCount[t] = 1
           /\ NoDeviceWork(t)
           /\ doneStatus[t] \in
                {C12_FirstDeciding(t)} \cup
                  (IF C12_FirstDeciding(t) \in {"FailedPrecondition", "OK"}
                   THEN {} ELSE {"Internal: src_compute_stream"})
      /\ Count(t, "CanUseDMA") > 0 =>
           /\ ~args[t].zero /\ args[t].dtypeEq /\ args[t].shapeEq
           /\ namesDiffer => initialized
      /\ \A i \in 1..Len(log[t]) :
           log[t][i].op = "CheckIfTPUInitialized" => i = 1

\* Between differently named devices on an initialized platform a
\* zero-element source of another dtype succeeded, after the platform was
\* asked.
C12_Witness ==
  \E t \in Transfers :
    /\ Called(t) /\ namesDiffer /\ args[t].zero /\ ~args[t].dtypeEq
    /\ Count(t, "CheckIfTPUInitialized") = 1
    /\ Succeeded(t)

\* Operations transfer t enqueued on stream s that have not executed.
QueuedOn(t, s) ==
  IF s \in WorkStreams
  THEN {i \in 1..Len(queue[s]) :
          queue[s][i].t = t /\ queue[s][i].kind # "host_callback"}
  ELSE {}

\* C13: once a transfer has returned its substream to the pool, no wait,
\* leaf copy or event record that the transfer enqueued on that substream
\* is still pending.
C13_ReturnedAfterCompletion ==
  \A t \in Transfers :
    (AcquiredSubStream(t) /\ Count(t, "ReturnSubStream") > 0) =>
      QueuedOn(t, chosen[t]) = {}

\* Some leaf copy that transfer t enqueued has executed.
CopyExecuted(t) ==
  Cardinality(Idx(t, "copy")) > Cardinality(Queued(t, "copy"))

\* C14: on every transfer that enqueues leaf copies, the wait on the
\* source's definition event is enqueued on the chosen stream before the
\* first leaf copy is, and no leaf copy has executed unless the source's
\* definition event has fired.
C14_SourceDefinitionWait ==
  \A t \in Transfers :
    /\ \A c \in 1..Len(log[t]) :
         log[t][c].op = "copy" =>
           /\ log[t][c].on = chosen[t]
           /\ \E w \in Idx(t, "wait_event") :
                w < c /\ log[t][w].on = chosen[t]
    /\ Count(t, "wait_event") <= 1
    /\ CopyExecuted(t) => srcDefined[t]

\* A leaf copy executed while the callback is still to come.
C14_Witness ==
  \E t \in Transfers :
    /\ CopyExecuted(t) /\ srcDefined[t]
    /\ Queued(t, "host_callback") # {}

\* Positions in the log of t of the readiness queries with the given answer.
AccessQueries(t, answer) ==
  {i \in 1..Len(log[t]) :
     log[t][i].op = "CanShapedBufferBeAccessedNow" /\ log[t][i].ok = answer}
\* Positions in the log of t of the enqueues of a kind, failed ones included.
Attempts(t, kind) == {i \in 1..Len(log[t]) : log[t][i].op = kind}

\* C15: exactly when the transfer manager answers that the allocated
\* destination buffer cannot be accessed now, the chosen stream is made to
\* wait on the destination compute stream before any leaf copy, and for a
\* tuple destination the host-to-device stream is made to wait on the
\* compute stream before the index-table write; otherwise neither wait is
\* inserted.
C15_DestinationReadinessWaits ==
  \A t \in Transfers :
    LET onChosen == WaitIdx(t, chosen[t], DstComputeStream)
        onStaging == WaitIdx(t, H2DStream, DstComputeStream)
    IN /\ AccessQueries(t, FALSE) = {} => onChosen = {} /\ onStaging = {}
       /\ AccessQueries(t, FALSE) # {} =>
            /\ Cardinality(onChosen) = 1
            /\ \A x \in onChosen :
                 /\ \A q \in AccessQueries(t, FALSE) : q < x
                 /\ \A c \in Attempts(t, "copy") : x < c
            /\ Cardinality(onStaging) = (IF out[t].tuple THEN 1 ELSE 0)
            /\ \A x \in onStaging :
                 /\ \A y \in onChosen : y < x
                 /\ \A c \in Attempts(t, "copy") : x < c
                 /\ \A w \in Attempts(t, "write_tables") : x < w
       /\ Cardinality(AccessQueries(t, TRUE) \cup AccessQueries(t, FALSE)) <= 1

\* A tuple destination that could not be accessed at once: both waits, then
\* the leaf copies and the index-table write; beside it a transfer whose
\* destination could be accessed and that copied without a wait.
C15_Witness ==
  \E t, u \in Transfers :
    /\ out[t].tuple /\ AccessQueries(t, FALSE) # {}
    /\ WaitIdx(t, H2DStream, DstComputeStream) # {}
    /\ Idx(t, "copy") # {} /\ Idx(t, "write_tables") # {}
    /\ AccessQueries(u, TRUE) # {} /\ Idx(u, "copy") # {}

\* C16: the definition event is recorded on the chosen stream after every
\* leaf copy and, for a tuple, after the wait on the stream of the
\* index-table write; it is then made the destination's definition event,
\* the only one the destination ever gets; the host callback is enqueued
\* after the record, and the event has been recorded when the callback of
\* a streamed transfer has fired.
C16_DefinitionEventOrdering ==
  \A t \in Transfers :
    /\ Count(t, "record") <= 1
    /\ Count(t, "ResetDefinitionEvent") = Count(t, "record")
    /\ (out[t].event = "none") = (Count(t, "ResetDefinitionEvent") = 0)
    /\ \A r \in Idx(t, "record") :
         /\ log[t][r].on = chosen[t]
         /\ out[t].buf = "allocated"
         /\ \A l \in 1..Len(out[t].sizes) :
              \E c \in Idx(t, "copy") :
                log[t][c].leaf = l /\ log[t][c].on = chosen[t] /\ c < r
         /\ \A c \in Attempts(t, "copy") : c < r
         /\ out[t].tuple => \E x \in WaitIdx(t, chosen[t], H2DStream) : x < r
         /\ log[t][r + 1].op = "ResetDefinitionEvent"
         /\ log[t][r + 1].on = chosen[t]
    /\ \A h \in Idx(t, "host_callback") :
         /\ log[t][h].on = chosen[t]
         /\ \E r \in Idx(t, "record") : r < h
    /\ (Streamed(t) /\ doneCount[t] >= 1) => out[t].event = "recorded"

\* An array destination whose event has been recorded while the host
\* callback is still pending.
C16_Witness ==
  \E t \in Transfers :
    /\ ~out[t].tuple /\ Idx(t, "record") # {}
    /\ out[t].event = "recorded"
    /\ Queued(t, "host_callback") # {}

\* The errors impl can return between the acquisition of the stream and the
\* attachment of the host callback.
PostAcquisitionErrors ==
  {"Internal: xla_input", "Internal: xla_output", "ShapeRepresentationError",
   "ResourceExhausted", "Internal: leaf size", "EnqueueError",
   "WriteTupleIndexTablesError", "Internal: Event failed to initialize!"}

\* C17: a transfer that checked out a substream and did not attach its host
\* callback has, when the function returns, returned the substream to the
\* pool and then invoked the user callback with the failure, in that order;
\* a transfer whose callback got one of these failures never attached a
\* host callback.
C17_FailureAfterAcquisition ==
  \A t \in Transfers :
    /\ (Called(t) /\ AcquiredSubStream(t) /\ ~Streamed(t)) =>
         /\ Failed(t) /\ doneCount[t] = 1
         /\ doneStatus[t] \in PostAcquisitionErrors
         /\ Count(t, "ReturnSubStream") = 1
         /\ \/ chosen[t] \in avail
            \/ \E u \in Transfers : u # t /\ chosen[u] = chosen[t]
         /\ \A i \in Idx(t, "ReturnSubStream") :
              /\ log[t][i].on = chosen[t]
              /\ \A d \in Attempts(t, "done") : i < d
    /\ (Called(t) /\ doneStatus[t] \in PostAcquisitionErrors) =>
         /\ Attempts(t, "host_callback") = {}
         /\ Queued(t, "host_callback") = {}
         /\ AcquiredSubStream(t) => Count(t, "ReturnSubStream") = 1

\* A transfer that checked out a substream failed at the index-table write
\* and its substream is back in the pool.
C17_Witness ==
  \E t \in Transfers :
    /\ AcquiredSubStream(t) /\ doneStatus[t] = "WriteTupleIndexTablesError"
    /\ Count(t, "ReturnSubStream") = 1 /\ doneCount[t] = 1
    /\ chosen[t] \in avail

\* The calls the host callback of transfer t is to make, in order.
C18_Order(t) ==
  IF master[t] # Null THEN <<"ReturnSubStream", "Unref", "done">>
  ELSE <<"Unref", "done">>

\* C18: the host callback returns the substream to the master stream's
\* pool if one was acquired, then releases the reference on the source
\* tensor, then invokes the user callback with success, and does nothing
\* else; when the user callback of a streamed transfer has fired, the
\* substream has been returned and the reference released.
C18_HostCallbackOrder ==
  \A t \in Transfers :
    Streamed(t) =>
      \A h \in Idx(t, "host_callback") :
        /\ (master[t] # Null) = AcquiredSubStream(t)
        /\ Count(t, "TensorReference") = 1
        /\ \A u \in Idx(t, "TensorReference") : u < h
        /\ IF Queued(t, "host_callback") # {}
           THEN /\ Len(log[t]) = h
                /\ doneCount[t] = 0
                /\ engineRef[t] = 1
                /\ AcquiredSubStream(t) => chosen[t] \notin avail
           ELSE /\ Len(log[t]) = h + Len(C18_Order(t))
                /\ \A k \in 1..Len(C18_Order(t)) :
                     log[t][h + k].op = C18_Order(t)[k]
                /\ log[t][Len(log[t])].ok
                /\ Succeeded(t) /\ doneCount[t] = 1
                /\ engineRef[t] = 0
                /\ Count(t, "ReturnSubStream") =
                     (IF AcquiredSubStream(t) THEN 1 ELSE 0)

\* The host callback of a transfer on a pooled substream has run.
C18_Witness ==
  \E t \in Transfers :
    /\ Streamed(t) /\ master[t] = MasterStream /\ Succeeded(t)
    /\ Count(t, "ReturnSubStream") = 1 /\ Count(t, "Unref") = 1
    /\ log[t][Len(log[t])].op = "done"

\* Calls that enqueue an operation on a stream.
EnqueueOps == {"wait_event", "ThenWaitFor", "copy", "write_tables", "record",
               "host_callback"}
\* Transfer t asked for a stream / was answered with a null stream.
AskedStream(t) ==
  Attempts(t, "GetOrCreateSubStream") \cup Attempts(t, "GetDeviceToDeviceStream")
NullStream(t) == \E i \in AskedStream(t) : ~log[t][i].ok

\* C19: with pooling enabled the chosen stream is a substream checked out
\* of the master stream's pool, returned to that pool and to no other; with
\* pooling disabled the dedicated device-to-device stream is used and
\* ReturnSubStream is never called; in both modes a null stream fails the
\* transfer through the callback with nothing enqueued and nothing
\* returned.
C19_StreamSelection ==
  \A t \in Transfers :
    (Called(t) /\ AskedStream(t) # {}) =>
      /\ Cardinality(AskedStream(t)) = 1
      /\ \A i \in AskedStream(t) :
           /\ log[t][i].on = chosen[t]
           /\ log[t][i].op = IF should_use_substream
                              THEN "GetOrCreateSubStream"
                              ELSE "GetDeviceToDeviceStream"
           /\ \A j \in 1..Len(log[t]) :
                log[t][j].op \in EnqueueOps \cup {"ReturnSubStream"} =>
                  i < j /\ log[t][i].ok
      /\ should_use_substream =>
           /\ master[t] = MasterStream
           /\ chosen[t] \in SubStreams \cup {Null}
           /\ \A i \in Attempts(t, "ReturnSubStream") :
                log[t][i].on = chosen[t]
           /\ (~NullStream(t) /\ doneCount[t] >= 1) =>
                Count(t, "ReturnSubStream") = 1
      /\ ~should_use_substream =>
           /\ master[t] = Null
           /\ chosen[t] \in {D2DStream, Null}
           /\ Count(t, "ReturnSubStream") = 0
           /\ avail = SubStreams
      /\ \A j \in 1..Len(log[t]) :
           (log[t][j].op \in EnqueueOps /\ log[t][j].on # H2DStream) =>
             log[t][j].on = chosen[t]
      /\ NullStream(t) =>
           /\ chosen[t] = Null
           /\ doneCount[t] = 1
           /\ doneStatus[t] = "Internal: dst_device_to_device_stream"
           /\ QueuedAny(t) = {}
           /\ Count(t, "ReturnSubStream") = 0
           /\ out[t] = NoBuffer

\* With pooling disabled, one transfer completed on the dedicated stream
\* and another was refused for a null stream.
C19_Witness ==
  \E t, u \in Transfers :
    /\ ~should_use_substream
    /\ chosen[t] = D2DStream /\ Succeeded(t) /\ Streamed(t)
    /\ NullStream(u) /\ Failed(u)

\* Transfer t asked for a stream of the kind that pooling decision b selects.
UsedKind(t, b) ==
  \A i \in AskedStream(t) :
    log[t][i].op = IF b THEN "GetOrCreateSubStream"
                   ELSE "GetDeviceToDeviceStream"

\* C20: the pooling decision is read from the flag by the first invocation
\* of the transfer function and never changes afterwards: the first
\* invocation uses the value the flag has then, whatever RegisterTpuNodeDevice
\* set before; every later invocation uses the value latched by the first,
\* whatever the flag has become.
C20_FlagLatching ==
  [][/\ latched => /\ latched'
                   /\ should_use_substream' = should_use_substream
     /\ (~latched /\ latched') => should_use_substream' = flag
     /\ \A t \in Transfers :
          (pc[t] = "idle" /\ pc'[t] = "called") =>
            /\ latched'
            /\ (UsedKind(t, IF latched THEN should_use_substream ELSE flag))'
            /\ (\A u \in Transfers :
                  Called(u) => UsedKind(u, should_use_substream))'
     /\ flag' # flag => UNCHANGED <<latched, should_use_substream, log,
                                   chosen, master>>]_vars

\* The flag was cleared before the first transfer and set again after it;
\* the second transfer runs on the dedicated stream all the same.
C20_Witness ==
  /\ latched /\ ~should_use_substream /\ flag
  /\ doneCount[1] = 1
  /\ chosen[2] = D2DStream /\ Queued(2, "host_callback") # {}

====
